---- MODULE Spec2Model ----
(***************************************************************************)
(* GMMEstimator (src/gmm.py): the estimator instance as a state machine.   *)
(* One moment column and one parameter (L = k = 1): z is n_z x 1, x is     *)
(* n_x x 1, y has n_y entries, beta has one entry, and W, Gamma, vtheta    *)
(* are 1 x 1.  float64 values are exact rationals <<num, den>> in lowest   *)
(* terms with den > 0, plus the not-a-number value <<0, 0>>.               *)
(***************************************************************************)
EXTENDS Integers, Sequences, FiniteSets, TLC

\* ------------------------------------------------------------------ bounds
\* longest input array
MaxN == 2
\* the minimizer evaluates and returns parameters 0 .. MaxBeta
MaxBeta == 1

\* ------------------------------------------------------------ float values
NaN == <<0, 0>>
Unset == <<0, -1>>      \* an attribute the instance does not have yet

IsNaN(a) == a[2] = 0

Abs(i) == IF i < 0 THEN -i ELSE i

RECURSIVE Gcd(_, _)
Gcd(a, b) == IF b = 0 THEN a ELSE Gcd(b, a % b)

Norm(num, den) ==
    LET g == Gcd(Abs(num), Abs(den))
        s == IF den < 0 THEN -1 ELSE 1
    IN  <<(s * num) \div g, (s * den) \div g>>

Flt(i) == <<i, 1>>

FAdd(a, b) == IF IsNaN(a) \/ IsNaN(b) THEN NaN
              ELSE Norm(a[1] * b[2] + b[1] * a[2], a[2] * b[2])
FNeg(a) == IF IsNaN(a) THEN NaN ELSE <<-a[1], a[2]>>
FSub(a, b) == FAdd(a, FNeg(b))
FMul(a, b) == IF IsNaN(a) \/ IsNaN(b) THEN NaN
              ELSE Norm(a[1] * b[1], a[2] * b[2])
FDivInt(a, i) == IF IsNaN(a) THEN NaN ELSE Norm(a[1], a[2] * i)

RECURSIVE FSum(_)
FSum(s) == IF s = <<>> THEN Flt(0) ELSE FAdd(Head(s), FSum(Tail(s)))

\* np.linalg.inv / torch.inverse of a 1 x 1 matrix: an exactly zero pivot is
\* reported as singular (the call raises); not-a-number passes through.
Singular(a) == ~IsNaN(a) /\ a[1] = 0
Inv(a) == IF IsNaN(a) THEN NaN ELSE Norm(a[2], a[1])

\* np.sqrt: the principal root, kept as its radicand; not-a-number for a
\* negative or not-a-number argument (a warning, no exception).
NpSqrt(a) == IF IsNaN(a) \/ a[1] < 0
             THEN [kind |-> "array", nan |-> TRUE,  sq |-> Flt(0)]
             ELSE [kind |-> "array", nan |-> FALSE, sq |-> a]
NoneValue  == [kind |-> "None",  nan |-> FALSE, sq |-> Flt(0)]
UnsetValue == [kind |-> "unset", nan |-> FALSE, sq |-> Flt(0)]

\* --------------------------------------------------------- array broadcast
\* elementwise operations stretch an axis of length 1; other unequal
\* lengths raise.
Broadcastable(a, b) == Len(a) = Len(b) \/ Len(a) = 1 \/ Len(b) = 1
BLen(a, b) == IF Len(a) = 1 THEN Len(b) ELSE Len(a)
At(a, i) == IF Len(a) = 1 THEN a[1] ELSE a[i]

\* an array built entry by entry, as a tuple value
Arr(f) == <<>> \o f

Scale(a, c) == Arr([i \in 1..Len(a) |-> FMul(a[i], c)])
ESub(a, b) == Arr([i \in 1..BLen(a, b) |-> FSub(At(a, i), At(b, i))])
EMul(a, b) == Arr([i \in 1..BLen(a, b) |-> FMul(At(a, i), At(b, i))])

\* ------------------------------------------------------------- input sets
FiniteVals == {Flt(0), Flt(1)}
FloatVals == FiniteVals \cup {NaN}
\* an input array: any values, any length up to MaxN
Arrays(vals) == UNION {[1..len -> vals] : len \in 1..MaxN}
\* three input arrays, each repeating one value: z and x of one common
\* length, y of that length plus more (more = 0: the three are aligned;
\* more > 0: unequal lengths above 1, which do not broadcast)
Repeated(vals, more) ==
    {<<[i \in 1..len |-> cz], [i \in 1..(len + more) |-> cy],
       [i \in 1..len |-> cx]>> :
        len \in (1 + more)..MaxN, cz \in vals, cy \in vals, cx \in vals}
RepeatedInputs(vals) == Repeated(vals, 0) \cup Repeated(vals, 1)
Betas == {Flt(b) : b \in 0..MaxBeta}

WeightingValues == {"optimal", "identity", "Optimal"}
Opts == {"scipy", "torch"}
\* "iv": iv_moment_numpy / iv_moment_pytorch, z * (y - x @ beta);
\* "nonlinear": a user-supplied function, here z * (y - x @ beta**2)
MomentConds == {"iv", "nonlinear"}

\* ------------------------------------------------------- moment conditions
\* the factor of x inside the residual, and its derivative in beta
Link(mc, beta) == IF mc = "iv" THEN beta ELSE FMul(beta, beta)
DLink(mc, beta) == IF mc = "iv" THEN Flt(1) ELSE FMul(Flt(2), beta)

\* the moment function raises when its operands do not broadcast
MomentRaises(zz, yy, xx) ==
    ~Broadcastable(yy, xx) \/ ~Broadcastable(zz, ESub(yy, xx))

\* the column of per-observation moments
Moments(mc, zz, yy, xx, beta) == EMul(zz, ESub(yy, Scale(xx, Link(mc, beta))))

\* ----------------------------------------------------------------- state
VARIABLES
    moment_cond, weighting_matrix, opt,   \* __init__ arguments
    z, y, x, n, k,                        \* data staged by fit
    W, theta, Gamma, vtheta, std_errors,  \* fit state
    pc,          \* where the current fit call is
    jac, jac_est,  \* set by jacobian_moment_cond
    \* of the current (or latest) fit call:
    lastBeta,    \* beta of the latest gmm_objective evaluation that returned
    fval,        \* value that evaluation returned to the minimizer
    result,      \* what the minimizer returned to fit
    exc,         \* exception raised during this call ("" when none)
    nJac,        \* jacobian_moment_cond calls during this call
    age,         \* per attribute: 0 never assigned, 1 assigned by the
                 \* current (latest) call, 2 assigned by an earlier call
    earlier,     \* how the call before the current one ended
    prev         \* the fit state as the latest returned call left it

vars == <<moment_cond, weighting_matrix, opt, z, y, x, n, k, W, theta, Gamma,
          vtheta, std_errors, jac, jac_est, pc, lastBeta, fval, result, exc,
          nJac, age, earlier, prev>>

config == <<moment_cond, weighting_matrix, opt>>
data == <<z, y, x, n, k>>

NoResult == [x |-> Unset, success |-> FALSE]
Fields == {"data", "W", "theta", "Gamma", "vtheta", "std_errors"}

FitState == [theta |-> theta, W |-> W, Gamma |-> Gamma, vtheta |-> vtheta,
             std_errors |-> std_errors]
NoFit == [theta |-> Unset, W |-> Unset, Gamma |-> Unset, vtheta |-> Unset,
          std_errors |-> UnsetValue]

Init ==
    /\ moment_cond \in MomentConds
    /\ weighting_matrix \in WeightingValues
    /\ opt \in Opts
    /\ z = <<>> /\ y = <<>> /\ x = <<>> /\ n = 0 /\ k = 0
    /\ W = Unset /\ theta = Unset /\ Gamma = Unset /\ vtheta = Unset
    /\ std_errors = UnsetValue
    /\ jac = "" /\ jac_est = Unset
    /\ pc = "new"
    /\ lastBeta = Unset
    /\ fval = Unset
    /\ result = NoResult
    /\ exc = ""
    /\ nJac = 0
    /\ age = [f \in Fields |-> 0]
    /\ earlier = "none"
    /\ prev = NoFit

Touch(a, fs) == [f \in Fields |-> IF f \in fs THEN 1 ELSE a[f]]
Older(a) == [f \in Fields |-> IF a[f] = 0 THEN 0 ELSE 2]

\* ------------------------------------------------------------ gmm_objective
\* self.weighting_matrix == "optimal" (variant: compared ignoring case)
WeightingIsOptimalAnyCase(w) == w \in {"optimal", "Optimal"}
WeightingIsOptimal(w) == w = "optimal"

\* (1 / self.n) * (moments.T @ moments)
SecondMoment(m, nn) == FDivInt(FSum(EMul(m, m)), nn)

optimal_weighting_matrix(m, nn) == Inv(SecondMoment(m, nn))

Eye == Flt(1)

\* the W one evaluation leaves on the instance
ObjectiveW(w, m, nn) ==
    IF WeightingIsOptimal(w) THEN optimal_weighting_matrix(m, nn) ELSE Eye

\* exception raised by one evaluation ("" when it returns)
ObjectiveRaises(w, mc, zz, yy, xx, nn, beta) ==
    IF MomentRaises(zz, yy, xx) THEN "shape"
    ELSE IF WeightingIsOptimal(w)
            /\ Singular(SecondMoment(Moments(mc, zz, yy, xx, beta), nn))
         THEN "singular"
    ELSE ""

Mavg(m) == FDivInt(FSum(m), Len(m))
Quadratic(m, ww) == FMul(Mavg(m), FMul(ww, Mavg(m)))

\* ------------------------------------------------------ jacobian_moment_cond
\* -self.z.T @ self.x is a matrix product: unequal row counts raise, an
\* axis of length 1 is not stretched
JacobianRaises(o, zz, xx) == o = "scipy" /\ Len(zz) # Len(xx)

ZerosLike(a) == Arr([i \in 1..Len(a) |-> Flt(0)])

\* scipy: -z.T @ x;  torch: jacfwd of the moment function in beta at th,
\* summed over observations (variant: differentiated at the theta the
\* latest returned call left)
JacobianAtPreviousTheta(o, mc, zz, yy, xx, th) ==
    IF o = "scipy"
    THEN FNeg(FSum(EMul(zz, xx)))
    ELSE FSum(EMul(zz, ESub(ZerosLike(yy),
                            Scale(xx, DLink(mc, IF prev.theta = Unset THEN th
                                                ELSE prev.theta)))))
jacobian_moment_cond(o, mc, zz, yy, xx, th) ==
    IF o = "scipy"
    THEN FNeg(FSum(EMul(zz, xx)))
    ELSE FSum(EMul(zz, ESub(ZerosLike(yy), Scale(xx, DLink(mc, th)))))

\* self.jac: the torch branch stores the differentiated function
JacFunction(o, old) == IF o = "scipy" THEN old ELSE "jacfwd"

\* --------------------------------------------------------------------- fit
\* the W fit keeps once the minimizer has returned: the one the latest
\* evaluation left (torch: self.W.detach().numpy(), the same values)
\* (variant: gmm_objective evaluated once more, at result.x)
WRecomputedAtSolution(o, ww) ==
    ObjectiveW(weighting_matrix, Moments(moment_cond, z, y, x, result.x), n)
Detach(o, ww) == ww

\* self.theta = result.x (variant: only when result.success)
SolutionIfConverged(res, old) == IF res.success THEN res.x ELSE old
Solution(res, old) == res.x

\* the bare except clause catches every exception (variant: except
\* np.linalg.LinAlgError)
CaughtLinAlgErrorOnly(e) == e = "singular"
Caught(e) == TRUE

\* Gamma.T @ W @ Gamma
Sandwich(g, ww) == FMul(g, FMul(ww, g))

\* np.sqrt(self.n * np.diag(self.vtheta))
StdErrors(nn, v) == NpSqrt(FMul(Flt(nn), v))

FitStart(zz, yy, xx) ==
    /\ z' = zz /\ y' = yy /\ x' = xx
    /\ n' = Len(xx) /\ k' = 1
    /\ pc' = "minimize"
    /\ lastBeta' = Unset /\ fval' = Unset /\ result' = NoResult
    /\ exc' = "" /\ nJac' = 0
    /\ age' = Touch(Older(age), {"data"})
    /\ earlier' = (IF pc = "done" THEN "returned"
                   ELSE IF pc = "raised" THEN "raised" ELSE "none")
    /\ UNCHANGED <<config, W, theta, Gamma, vtheta, std_errors, jac, jac_est,
                   prev>>

\* the first fit call on a new instance
FirstFit ==
    /\ pc = "new"
    /\ \E zz, yy, xx \in Arrays(FiniteVals) : FitStart(zz, yy, xx)

\* the same, over arrays that may hold not-a-number
FirstFitFloat ==
    /\ pc = "new"
    /\ \E zz, yy, xx \in Arrays(FloatVals) : FitStart(zz, yy, xx)

\* the first fit call, on arrays that each repeat one value
FirstFitRepeated ==
    /\ pc = "new"
    /\ \E d \in RepeatedInputs(FiniteVals) : FitStart(d[1], d[2], d[3])

\* a further fit call, after one that returned or raised
Refit ==
    /\ pc \in {"done", "raised"}
    /\ \E d \in RepeatedInputs(FiniteVals) : FitStart(d[1], d[2], d[3])

\* the minimizer evaluates gmm_objective(beta)
Evaluate(beta) ==
    /\ pc = "minimize"
    /\ LET e == ObjectiveRaises(weighting_matrix, moment_cond, z, y, x, n, beta)
           m == Moments(moment_cond, z, y, x, beta)
           ww == ObjectiveW(weighting_matrix, m, n)
       IN  IF e # ""
           THEN /\ pc' = "raised" /\ exc' = e
                /\ UNCHANGED <<W, lastBeta, fval, age>>
           ELSE /\ W' = ww
                /\ fval' = Quadratic(m, ww)
                /\ lastBeta' = beta
                /\ age' = Touch(age, {"W"})
                /\ UNCHANGED <<pc, exc>>
    /\ UNCHANGED <<config, data, theta, Gamma, vtheta, std_errors, jac,
                   jac_est, result, nJac, earlier, prev>>

\* the minimizer returns, converged or not
MinimizerReturn(b, s) ==
    /\ pc = "minimize"
    /\ lastBeta # Unset
    /\ result' = [x |-> b, success |-> s]
    /\ pc' = "solved"
    /\ UNCHANGED <<config, data, W, theta, Gamma, vtheta, std_errors, jac,
                   jac_est, lastBeta, fval, exc, nJac, age, earlier, prev>>

\* (torch: self.W = self.W.detach().numpy(), the same values) and
\* self.theta = result.x
AssignTheta ==
    /\ pc = "solved"
    /\ W' = Detach(opt, W)
    /\ theta' = Solution(result, theta)
    /\ age' = Touch(age, {"theta"})
    /\ pc' = "jacobian"
    /\ UNCHANGED <<config, data, Gamma, vtheta, std_errors, jac, jac_est,
                   lastBeta, fval, result, exc, nJac, earlier, prev>>

\* the except clause of fit, entered with exception e; the call then ends
Except(e) ==
    /\ exc' = e
    /\ IF Caught(e)
       THEN /\ std_errors' = NoneValue
            /\ age' = Touch(age, {"std_errors"})
            /\ pc' = "done"
            /\ prev' = [FitState EXCEPT !.std_errors = NoneValue]
       ELSE /\ pc' = "raised"
            /\ UNCHANGED <<std_errors, age, prev>>
    /\ UNCHANGED <<Gamma, vtheta>>

\* self.Gamma = self.jacobian_moment_cond()
JacobianStep ==
    /\ pc = "jacobian"
    /\ nJac' = nJac + 1
    /\ IF JacobianRaises(opt, z, x)
       THEN Except("shape") /\ UNCHANGED <<jac, jac_est>>
       ELSE /\ jac' = JacFunction(opt, jac)
            /\ jac_est' = jacobian_moment_cond(opt, moment_cond, z, y, x, theta)
            /\ Gamma' = jac_est'
            /\ age' = Touch(age, {"Gamma"})
            /\ pc' = "invert"
            /\ UNCHANGED <<vtheta, std_errors, exc, prev>>
    /\ UNCHANGED <<config, data, W, theta, lastBeta, fval, result, earlier>>

\* self.vtheta = np.linalg.inv(self.Gamma.T @ self.W @ self.Gamma)
InvertStep ==
    /\ pc = "invert"
    /\ IF Singular(Sandwich(Gamma, W))
       THEN Except("singular")
       ELSE /\ vtheta' = Inv(Sandwich(Gamma, W))
            /\ age' = Touch(age, {"vtheta"})
            /\ pc' = "sqrt"
            /\ UNCHANGED <<Gamma, std_errors, exc, prev>>
    /\ UNCHANGED <<config, data, W, theta, jac, jac_est, lastBeta, fval,
                   result, nJac, earlier>>

\* self.std_errors = np.sqrt(self.n * np.diag(self.vtheta)); fit returns
SqrtStep ==
    /\ pc = "sqrt"
    /\ std_errors' = StdErrors(n, vtheta)
    /\ age' = Touch(age, {"std_errors"})
    /\ pc' = "done"
    /\ prev' = [FitState EXCEPT !.std_errors = StdErrors(n, vtheta)]
    /\ UNCHANGED <<config, data, W, theta, Gamma, vtheta, jac, jac_est,
                   lastBeta, fval, result, exc, nJac, earlier>>

\* pd.DataFrame({"coef": self.theta, "std err": self.std_errors})
\* (variant: the coef column taken from jac_est)
SummaryOfJacobian == [coef |-> jac_est, std_err |-> std_errors]
Summary == [coef |-> theta, std_err |-> std_errors]

Steps ==
    \/ \E beta \in Betas : Evaluate(beta)
    \/ \E b \in Betas, s \in BOOLEAN : MinimizerReturn(b, s)
    \/ AssignTheta
    \/ JacobianStep
    \/ InvertStep
    \/ SqrtStep

\* one fit call on a new instance
Next == FirstFit \/ Steps

Spec == Init /\ [][Next]_vars

\* fit calls one after another on one instance
NextRefit == FirstFitRepeated \/ Refit \/ Steps

SpecRefit == Init /\ [][NextRefit]_vars

\* one fit call on a new instance, over arrays that may hold not-a-number
NextFloat == FirstFitFloat \/ Steps

SpecFloat == Init /\ [][NextFloat]_vars

\* ================================================================= claims
Returned == pc = "done"
AfterMinimize == pc \in {"jacobian", "invert", "sqrt", "done"}
FitFields == {"theta", "W", "Gamma", "vtheta", "std_errors"}

\* inv((1/n) M'M) for the moments at beta b, and whether that inverse exists
SecondMomentAt(b) == SecondMoment(Moments(moment_cond, z, y, x, b), n)
WAt(b) == Inv(SecondMomentAt(b))

\* the sum over observations of the derivative of the moment function in
\* beta at th, and the closed form -Z'X
DerivativeAt(th) ==
    FSum(EMul(z, ESub(ZerosLike(y), Scale(x, DLink(moment_cond, th)))))
Analytic == FNeg(FSum(EMul(z, x)))

ZeroInstrument == \A i \in 1..Len(z) : z[i] = Flt(0)

\* C1: after a fit call that returns, following a call that returned, no
\* attribute of the fit state (theta, W, Gamma, vtheta, std_errors) still
\* holds a value assigned by an earlier call.
C1_FullOverwrite ==
    (Returned /\ earlier = "returned") => \A f \in FitFields : age[f] # 2

\* C2: with an all-zero instrument column (and arrays of matching shapes),
\* in every weighting mode, a fit call that ends has returned, with theta
\* assigned by this call and std_errors None; it has not raised.
C2_SingularInstrument ==
    (pc \in {"done", "raised"} /\ ZeroInstrument /\ ~MomentRaises(z, y, x))
    => (Returned /\ age.theta = 1 /\ std_errors = NoneValue)

\* C3: once the minimizer has returned a result, fit does not raise: theta
\* is the minimizer's result from then on, and a failure in the covariance
\* step leaves std_errors None.
C3_CovarianceFailureSwallowed ==
    /\ pc = "raised" => result = NoResult
    /\ AfterMinimize => theta = result.x
    /\ (Returned /\ exc # "") => std_errors = NoneValue

\* a call returned after jacobian_moment_cond raised: theta is the result,
\* std_errors is None
C3_Witness ==
    /\ Returned /\ exc = "shape" /\ result # NoResult
    /\ theta = result.x /\ std_errors = NoneValue

C5_DiffersWhenever ==
    (Returned /\ weighting_matrix = "optimal") =>
        /\ W = WAt(lastBeta)
        /\ lastBeta # theta =>
              (Singular(SecondMomentAt(theta)) \/ W # WAt(theta))

\* C5 amended: in optimal mode, from the minimizer's return on, W is the
\* weighting matrix computed at the beta of the last evaluation, and vtheta
\* is inv(Gamma' W Gamma) for that W; W is not recomputed at theta.
C5_WFromLastEvaluation ==
    (weighting_matrix = "optimal" /\ AfterMinimize) =>
        /\ W = WAt(lastBeta)
        /\ (pc = "sqrt" \/ (Returned /\ exc = "")) =>
              vtheta = Inv(FMul(Gamma, FMul(WAt(lastBeta), Gamma)))

\* an optimal-mode fit returned with W unlike the weighting matrix at theta
C5_Witness ==
    /\ Returned /\ weighting_matrix = "optimal" /\ exc = ""
    /\ lastBeta # theta
    /\ ~Singular(SecondMomentAt(theta)) /\ W # WAt(theta)

\* C6: after a fit that returns, std_errors is None or an array of
\* non-negative numbers, never one holding not-a-number.
C6_NonNegative ==
    Returned =>
        \/ std_errors = NoneValue
        \/ std_errors.kind = "array" /\ ~std_errors.nan
              /\ std_errors.sq[1] >= 0

\* the standard errors the covariance step yields for parameter th
ExpectedStdErrors(th) ==
    LET g == IF opt = "scipy" THEN Analytic ELSE DerivativeAt(th)
        a == FMul(g, FMul(W, g))
    IN  IF JacobianRaises(opt, z, x) \/ Singular(a) THEN NoneValue
        ELSE NpSqrt(FMul(Flt(n), Inv(a)))

\* C7: a result reporting non-convergence is accepted: fit does not raise,
\* theta is the result, and the covariance step runs once and yields what it
\* yields for any result, converged or not.
C7_NonConvergedAccepted ==
    /\ (result # NoResult /\ ~result.success) =>
          (pc # "raised" /\ (AfterMinimize => theta = result.x))
    /\ Returned => (nJac = 1 /\ std_errors = ExpectedStdErrors(result.x))

\* a fit returned standard errors for a result reporting non-convergence
C7_Witness ==
    /\ Returned /\ result # NoResult /\ ~result.success
    /\ theta = result.x /\ std_errors.kind = "array"

\* C8: for arrays of one common length, the Gamma that fit assigns is -Z'X
\* when the moment condition is the linear instrumental-variables one, and
\* otherwise the derivative of the moment function in beta at theta, summed
\* over observations.
C8_JacobianByMoment ==
    (age.Gamma = 1 /\ Len(z) = Len(x) /\ Len(y) = Len(x)) =>
        Gamma = (IF moment_cond = "iv" THEN Analytic ELSE DerivativeAt(theta))

\* the Gamma jacobian_moment_cond returns at parameter th
JacobianAt(th) == IF opt = "scipy" THEN Analytic ELSE DerivativeAt(th)

\* C9: within a fit call the data are stored before any gmm_objective
\* evaluation, all evaluations (and changes of W) come before theta is
\* assigned, jacobian_moment_cond runs once, after theta is assigned and at
\* that theta, and nothing evaluates the objective or changes W once the
\* covariance step has begun.
C9_FitOrder ==
    /\ [](Returned => nJac = 1)
    /\ [][ /\ (lastBeta' # lastBeta /\ lastBeta' # Unset) =>
                (pc = "minimize" /\ age.data = 1 /\ age.theta # 1)
           /\ W' # W => (pc = "minimize" /\ age.data = 1)
           /\ (age'.theta = 1 /\ age.theta # 1) =>
                (pc = "solved" /\ lastBeta # Unset /\ theta' = result.x)
           /\ nJac' = nJac + 1 =>
                /\ nJac = 0 /\ age.theta = 1
                /\ pc' = "invert" => Gamma' = JacobianAt(theta)
           /\ pc \in {"jacobian", "invert", "sqrt"} =>
                (W' = W /\ lastBeta' = lastBeta /\ theta' = theta)
         ]_vars

\* a second fit has assigned a theta unlike the first one's and a Gamma that
\* is the derivative at the new theta, not at the first one's
C9_Witness ==
    /\ pc = "invert" /\ earlier = "returned"
    /\ opt = "torch" /\ moment_cond = "nonlinear"
    /\ theta # prev.theta
    /\ Gamma = DerivativeAt(theta) /\ Gamma # DerivativeAt(prev.theta)

\* C10: when a fit call on an instance with a completed fit raises, the
\* stored data are the raising call's, while theta, Gamma, vtheta and
\* std_errors are those the completed fit left, which summary() reports.
C10_AbortedRefit ==
    (pc = "raised" /\ prev # NoFit) =>
        /\ exc # "" /\ age.data = 1
        /\ age.theta = 2 /\ age.std_errors = 2
        /\ theta = prev.theta /\ Gamma = prev.Gamma
        /\ vtheta = prev.vtheta /\ std_errors = prev.std_errors
        /\ Summary = [coef |-> prev.theta, std_err |-> prev.std_errors]

\* a fit raised on a shape mismatch, on an instance whose earlier fit left
\* standard errors and W: summary() still reports the earlier fit
C10_Witness ==
    /\ pc = "raised" /\ prev # NoFit /\ exc = "shape"
    /\ prev.std_errors.kind = "array" /\ age.W = 2
    /\ Summary.std_err = prev.std_errors

====
